---- MODULE Spec2Model ----
(***************************************************************************)
(* The spill module (dicedb-spill): keys evicted from the host's memory    *)
(* are written to an on-disk store with an 8-byte expiry header, restored  *)
(* on a miss or by spill.restore, and swept when expired.                  *)
(*                                                                         *)
(* The host (command dispatcher, DUMP/PTTL/RESTORE) and the embedded       *)
(* store (get/put/delete/iterate) are the module's environment: the        *)
(* replies and error returns the code branches on are inputs of the        *)
(* actions.                                                                *)
(***************************************************************************)
EXTENDS Integers, Sequences, FiniteSets, TLC

\* ------------------------------------------------------------------ bounds

\* The wall clock runs from second 1 to the start of second MaxSec.
MaxSec == 2
\* Pre-eviction events that reach the store put (caps total_keys_written).
MaxWrites == 2
\* Error returns injected into store operations and host calls.
MaxFaults == 1
\* Option pairs in an argument vector of the argument-validation
\* specification.
MaxPairs == 2

\* ------------------------------------------------------- program constants

\* time(NULL) * 1000: the module's clock has one-second resolution.
MsPerSec == 1000
\* sizeof(int64_t): the expiry header in front of every stored payload.
HeaderLen == 8
\* uint64_t counters are kept as four 16-bit limbs, least significant first.
LimbBase == 65536
\* one byte of a stored value
ByteBase == 256
\* #define MIN_MAX_MEMORY_MB 20, in bytes (20 * 1024 * 1024)
MinMaxMemory == 20971520
\* config defaults: 256 * 1024 * 1024 bytes and 300 seconds
DefaultMaxMemory == 268435456
DefaultCleanupInterval == 300

\* --------------------------------------------------------- uint64_t values

U64(n) == <<n % LimbBase, (n \div LimbBase) % LimbBase, 0, 0>>

U64Plus(a, b) ==
    LET s1 == a[1] + b[1]
        s2 == a[2] + b[2] + (s1 \div LimbBase)
        s3 == a[3] + b[3] + (s2 \div LimbBase)
        s4 == a[4] + b[4] + (s3 \div LimbBase)
    IN  <<s1 % LimbBase, s2 % LimbBase, s3 % LimbBase, s4 % LimbBase>>

U64Minus(a, b) ==
    LET d1 == a[1] - b[1]
        d2 == a[2] - b[2] - (IF d1 < 0 THEN 1 ELSE 0)
        d3 == a[3] - b[3] - (IF d2 < 0 THEN 1 ELSE 0)
        d4 == a[4] - b[4] - (IF d3 < 0 THEN 1 ELSE 0)
    IN  <<d1 % LimbBase, d2 % LimbBase, d3 % LimbBase, d4 % LimbBase>>

\* __sync_fetch_and_add / __sync_fetch_and_sub on a uint64_t, by a small n
FetchAndAdd(a, n) == U64Plus(a, U64(n))
FetchAndSub(a, n) == U64Minus(a, U64(n))

\* a < b as unsigned 64-bit values
U64Less(a, b) ==
    \/ a[4] < b[4]
    \/ a[4] = b[4] /\ a[3] < b[3]
    \/ a[4] = b[4] /\ a[3] = b[3] /\ a[2] < b[2]
    \/ a[4] = b[4] /\ a[3] = b[3] /\ a[2] = b[2] /\ a[1] < b[1]

\* ------------------------------------------------- the stored value format

\* "no value": rocksdb_get returned NULL without an error
NoVal == <<-1>>

RECURSIVE LEBytes(_, _)
\* memcpy(ptr, &expiry_time_ms, sizeof(int64_t)) on a little-endian host:
\* the two's-complement bytes of n, least significant first
LEBytes(n, len) ==
    IF len = 0 THEN <<>>
    ELSE <<n % ByteBase>> \o LEBytes(n \div ByteBase, len - 1)

RECURSIVE LEUnsigned(_)
LEUnsigned(bs) ==
    IF bs = <<>> THEN 0 ELSE Head(bs) + ByteBase * LEUnsigned(Tail(bs))

\* memcpy(&expiry_time_ms, val, sizeof(int64_t)): the signed value of the
\* first 8 bytes
HeaderOf(val) ==
    LET hd == SubSeq(val, 1, HeaderLen)
    IN  IF hd[HeaderLen] >= ByteBase \div 2
        THEN -(LEUnsigned([i \in 1..HeaderLen |-> (ByteBase - 1) - hd[i]]) + 1)
        ELSE LEUnsigned(hd)

\* A faulty Frame: the expiry written as a 4-byte int
FrameShortHeader(expiry, dump) == LEBytes(expiry, 4) \o dump

\* combined_data: expiry header followed by the DUMP payload
Frame(expiry, dump) == LEBytes(expiry, HeaderLen) \o dump

\* A faulty DumpOf: the payload taken from the header's last byte on
DumpOfFromHeaderEnd(val) == SubSeq(val, HeaderLen, Len(val))

\* ptr + sizeof(int64_t), dump_len = vallen - sizeof(int64_t)
DumpOf(val) == SubSeq(val, HeaderLen + 1, Len(val))

\* (int64_t)time(NULL) * 1000 at wall-clock instant t (in true milliseconds)
NowMs(t) == (t \div MsPerSec) * MsPerSec

\* A faulty NowSec: the clock reading kept in milliseconds
NowSecInMs(t) == (t \div MsPerSec) * MsPerSec

\* time(NULL) at wall-clock instant t
NowSec(t) == t \div MsPerSec

\* ------------------------------------------------------------------ inputs

\* Key names (byte strings): "a" and "b". The empty name is a command input.
Keys == {<<97>>, <<98>>}
EmptyKey == <<>>
\* rocksdb iterators visit the keys in bytewise order
KeyOrder == <<<<97>>, <<98>>>>

\* DUMP payloads: the empty payload and one that contains a NUL byte
Payloads == {<<>>, <<0, 7>>}

\* The PTTL reply for the key being evicted: an integer (remaining ms, or
\* -1 for no expiry), or no integer at all (NULL reply or another type)
PttlReplies ==
    {[type |-> "integer", val |-> v] : v \in {-1, 1000}}
        \cup {[type |-> "null", val |-> 0]}

\* The DUMP reply: a string payload, or a failed call / another reply type
DumpReplies ==
    {[type |-> "string", val |-> p] : p \in Payloads}
        \cup {[type |-> "null", val |-> <<>>]}

\* The RESTORE reply: a status reply, an error reply, or no reply (NULL)
RestoreReplies == {"ok", "error", "null"}

\* Sampled instants of the wall clock, in true milliseconds
SubSecOffsets == {0, MsPerSec - 1}
ClockPoints ==
    {s * MsPerSec + o : s \in 1..(MaxSec - 1), o \in SubSecOffsets}
        \cup {MaxSec * MsPerSec}
FirstInstant == MsPerSec

\* Instants a handler that started at t can read the clock again at: the
\* same instant, or the start of the next second
LaterReads(t) == {u \in ClockPoints : u = t \/ u = NowMs(t) + MsPerSec}

\* What the store directory holds before the module is loaded: entries of
\* an earlier run (one expired before the first instant, one expiring in
\* the middle of the first second, one with a zero header) and a 4-byte
\* value that is no entry.
ShortValue == <<1, 2, 3, 4>>
InitStores ==
    { [k \in Keys |-> NoVal],
      (<<97>> :> Frame(MsPerSec \div 2, <<>>)) @@ (<<98>> :> ShortValue),
      (<<97>> :> Frame(MsPerSec + MsPerSec \div 2, <<0, 7>>))
          @@ (<<98>> :> Frame(0, <<>>)) }

\* ------------------------------------------------------------------- state

VARIABLES
    phase,                  \* "unloaded", "loaded", "failed", "closed"
    db,                     \* db != NULL: the store handle is open
    handles,                \* options, roptions, woptions != NULL
    config,                 \* SpillConfig
    cleanup_thread_running, \* the sweeper's run flag
    stats,                  \* SpillStats
    store,                  \* the contents of the store directory
    now,                    \* the wall clock, in true milliseconds
    faults,                 \* error returns injected so far
    seeded,                 \* initial_count: num_keys_stored as set at load
    captured,               \* per key, the capture that wrote its entry
    prevCapture,            \* the latest handler runs, if they stored one key
    lastOp,                 \* what the handler that just ran did and replied
    thr                     \* the sweeper thread's position and locals, and
                            \* the value a restore in progress has read

vars == <<phase, db, handles, config, cleanup_thread_running, stats, store,
          now, faults, seeded, captured, prevCapture, lastOp, thr>>

NoPath == <<"NULL">>
NoCapture == [pttl |-> 0, at |-> 0, dump |-> <<-1>>]

\* The counters a pre-eviction event found, and whether it counted a new key
NoSnap == [num_keys_stored |-> <<0, 0, 0, 0>>, total_keys_written |-> <<0, 0, 0, 0>>,
           is_new_key |-> FALSE]
\* n consecutive handler runs (n capped at 2) were pre-eviction events that
\* stored `key`: `first` and `second` are what the last two of them found
NoPrev == [key |-> <<>>, n |-> 0, first |-> NoSnap, second |-> NoSnap]

ZeroStats ==
    [ num_keys_stored |-> U64(0), total_keys_written |-> U64(0),
      total_keys_restored |-> U64(0), total_keys_cleaned |-> U64(0),
      last_num_keys_cleaned |-> U64(0), last_cleanup_at |-> 0,
      total_bytes_written |-> U64(0), total_bytes_read |-> U64(0) ]

\* The record of a handler run; NoOp is the record of "no handler ran".
\*   op       the handler            key      its key argument
\*   argv     the argument vector OnLoad was called with
\*   event    the event name a callback was called with
\*   inMem    the host held a key of that name when spill.restore ran
\*   calls    the host commands the pre-eviction callback called
\*   argc     a command's argument count (0 for a callback)
\*   reply    the command's reply    result   RestoreKeyFromDB's return value
\*   got      what the point-get / the header check found
\*   call     the RESTORE call issued to the host, if any
\*   putOk    rocksdb_put was called and succeeded
\*   dels     keys rocksdb_delete was called for, delFail those it failed for
\*   scanned, cleaned   a sweep's counts
\*   complete a sweep visited every entry
NoCall == [issued |-> FALSE, ttl |-> 0, dump |-> <<>>, replace |-> FALSE,
           reply |-> "none"]
NoOp ==
    [ op |-> "none", argc |-> 0, key |-> <<>>, reply |-> "none", result |-> 0,
      argv |-> <<>>, event |-> "none", inMem |-> FALSE, calls |-> {},
      got |-> "none", call |-> NoCall, putOk |-> FALSE,
      dels |-> {}, delFail |-> {}, scanned |-> 0, cleaned |-> 0,
      complete |-> FALSE ]

\* The sweeper thread and the host thread's restore in progress:
\*   pc       the sweeper's position: "sleep" (in its sleep slices, or not
\*            started), "woke", "enter", "loop", "visit", "finish", "exited"
\*   snap     the store as the iterator of the sweep in progress sees it
\*   t        the instant at which the sweep read the clock
\*   i        the entries of snap the sweep has visited
\*   cleaned  num_keys_cleaned of the sweep in progress
\*   val      the value the restore in progress got from the store
\*   rt       the instant at which the restore in progress read the clock
NoThread ==
    [ pc |-> "sleep", snap |-> <<>>, t |-> 0, i |-> 0, cleaned |-> 0,
      val |-> <<>>, rt |-> 0 ]

Init ==
    /\ phase = "unloaded"
    /\ db = FALSE
    /\ handles = [options |-> FALSE, roptions |-> FALSE, woptions |-> FALSE]
    /\ config = [path |-> NoPath, max_memory |-> U64(DefaultMaxMemory),
                 cleanup_interval |-> DefaultCleanupInterval]
    /\ cleanup_thread_running = 0
    /\ stats = ZeroStats
    /\ store \in InitStores
    /\ now = FirstInstant
    /\ faults = 0
    /\ seeded = U64(0)
    /\ captured = [k \in Keys |-> NoCapture]
    /\ prevCapture = NoPrev
    /\ lastOp = NoOp
    /\ thr = NoThread

\* What a store directory can hold under one key when the module is loaded:
\* nothing, entries without expiry (headers -1 and 0), an entry that expired
\* earlier, one that expires at the first instant, one that expires later,
\* and a value too short for a header
SeedValues ==
    {NoVal, ShortValue} \cup
    {Frame(e, <<>>) : e \in {-1, 0, MsPerSec \div 2, MsPerSec,
                             MsPerSec + MsPerSec \div 2}}
SeedStores == [Keys -> SeedValues]

\* The state before the load, over any such store directory
InitSeed ==
    /\ phase = "unloaded"
    /\ db = FALSE
    /\ handles = [options |-> FALSE, roptions |-> FALSE, woptions |-> FALSE]
    /\ config = [path |-> NoPath, max_memory |-> U64(DefaultMaxMemory),
                 cleanup_interval |-> DefaultCleanupInterval]
    /\ cleanup_thread_running = 0
    /\ stats = ZeroStats
    /\ store \in SeedStores
    /\ now = FirstInstant
    /\ faults = 0
    /\ seeded = U64(0)
    /\ captured = [k \in Keys |-> NoCapture]
    /\ prevCapture = NoPrev
    /\ lastOp = NoOp
    /\ thr = NoThread

\* ------------------------------------------------------- ParseModuleArgs

\* C strings are sequences of one-character strings.
Lower(c) ==
    CASE c = "A" -> "a" [] c = "B" -> "b" [] c = "C" -> "c" [] c = "D" -> "d"
      [] c = "E" -> "e" [] c = "F" -> "f" [] c = "G" -> "g" [] c = "H" -> "h"
      [] c = "I" -> "i" [] c = "J" -> "j" [] c = "K" -> "k" [] c = "L" -> "l"
      [] c = "M" -> "m" [] c = "N" -> "n" [] c = "O" -> "o" [] c = "P" -> "p"
      [] c = "Q" -> "q" [] c = "R" -> "r" [] c = "S" -> "s" [] c = "T" -> "t"
      [] c = "U" -> "u" [] c = "V" -> "v" [] c = "W" -> "w" [] c = "X" -> "x"
      [] c = "Y" -> "y" [] c = "Z" -> "z" [] OTHER -> c

\* strcasecmp(a, b) == 0
StrCaseEq(a, b) ==
    /\ Len(a) = Len(b)
    /\ \A i \in 1..Len(a) : Lower(a[i]) = Lower(b[i])

DigitVal(c) ==
    CASE c = "0" -> 0 [] c = "1" -> 1 [] c = "2" -> 2 [] c = "3" -> 3
      [] c = "4" -> 4 [] c = "5" -> 5 [] c = "6" -> 6 [] c = "7" -> 7
      [] c = "8" -> 8 [] c = "9" -> 9 [] OTHER -> -1

RECURSIVE ParseDigits(_, _)
ParseDigits(s, acc) ==
    IF s = <<>> \/ DigitVal(Head(s)) < 0 THEN acc
    ELSE ParseDigits(Tail(s), acc * 10 + DigitVal(Head(s)))

RECURSIVE Atoll(_)
\* atoll / atoi: leading blanks, an optional sign, then the leading digits
Atoll(s) ==
    IF s = <<>> THEN 0
    ELSE IF Head(s) = " " THEN Atoll(Tail(s))
    ELSE IF Head(s) = "-" THEN -ParseDigits(Tail(s), 0)
    ELSE IF Head(s) = "+" THEN ParseDigits(Tail(s), 0)
    ELSE ParseDigits(s, 0)

\* (size_t)n for a long long n
ToSizeT(n) == IF n >= 0 THEN U64(n) ELSE U64Minus(U64(0), U64(-n))

OptPath == <<"p", "a", "t", "h">>
OptMaxMemory == <<"m", "a", "x", "-", "m", "e", "m", "o", "r", "y">>
OptMaxMemoryAlt == <<"m", "a", "x", "_", "m", "e", "m", "o", "r", "y">>
OptCleanupInterval ==
    <<"c", "l", "e", "a", "n", "u", "p", "-", "i", "n", "t", "e", "r", "v", "a", "l">>
OptCleanupIntervalAlt ==
    <<"c", "l", "e", "a", "n", "u", "p", "_", "i", "n", "t", "e", "r", "v", "a", "l">>

RECURSIVE ParseLoop(_, _, _)
\* the for loop of ParseModuleArgs from index i (0-based) on: the config it
\* leaves and whether it returned VALKEYMODULE_ERR from inside the loop
ParseLoop(cfg, argv, i) ==
    IF i >= Len(argv) \/ i + 1 >= Len(argv) THEN [cfg |-> cfg, err |-> FALSE]
    ELSE
      LET key == argv[i + 1]
          value == argv[i + 2]
      IN  IF StrCaseEq(key, OptPath)
          THEN ParseLoop([cfg EXCEPT !.path = value], argv, i + 2)
          ELSE IF StrCaseEq(key, OptMaxMemory) \/ StrCaseEq(key, OptMaxMemoryAlt)
          THEN LET c2 == [cfg EXCEPT !.max_memory = ToSizeT(Atoll(value))]
               IN  IF U64Less(c2.max_memory, U64(MinMaxMemory))
                   THEN [cfg |-> c2, err |-> TRUE]
                   ELSE ParseLoop(c2, argv, i + 2)
          ELSE IF StrCaseEq(key, OptCleanupInterval)
                  \/ StrCaseEq(key, OptCleanupIntervalAlt)
          THEN LET c2 == [cfg EXCEPT !.cleanup_interval = Atoll(value)]
               IN  IF c2.cleanup_interval < 0
                   THEN [cfg |-> c2, err |-> TRUE]
                   ELSE ParseLoop(c2, argv, i + 2)
          ELSE ParseLoop(cfg, argv, i + 2)

\* ParseModuleArgs: the config it leaves and its return value
ParseModuleArgs(cfg, argv) ==
    LET r == ParseLoop(cfg, argv, 0)
    IN  [cfg |-> r.cfg, ok |-> ~r.err /\ r.cfg.path # NoPath]

\* Load argument vectors of the main specification
ArgPath == <<OptPath, <<"/", "d">>>>
LoadArgs ==
    { ArgPath,
      ArgPath \o <<OptCleanupInterval, <<"-", "1">>>>,
      <<OptMaxMemory, <<"1", "0", "2", "4">>>> \o ArgPath,
      <<OptMaxMemoryAlt, <<"2", "0", "9", "7", "1", "5", "2", "0">>>> }

\* Option pairs for the argument-validation specification: the path in two
\* spellings, max-memory at, below and far below its minimum, as a negative
\* number and as a word, cleanup-interval positive, zero and negative, and
\* a key the module does not know
ArgPairs ==
    { ArgPath,
      <<<<"P", "a", "t", "H">>, <<"/", "e">>>>,
      <<OptMaxMemory, <<"2", "0", "9", "7", "1", "5", "2", "0">>>>,
      <<OptMaxMemoryAlt, <<"2", "0", "9", "7", "1", "5", "1", "9">>>>,
      <<OptMaxMemory, <<"-", "1">>>>,
      <<OptMaxMemory, <<"b", "i", "g">>>>,
      <<OptCleanupInterval, <<"6", "0">>>>,
      <<OptCleanupIntervalAlt, <<"0">>>>,
      <<OptCleanupInterval, <<"-", "5">>>>,
      <<<<"m", "o", "d", "e">>, <<"1">>>> }

RECURSIVE Flatten(_)
\* The argument vector made of the option pairs f[1], f[2], ...
Flatten(f) == IF Len(f) = 0 THEN <<>> ELSE Head(f) \o Flatten(Tail(f))

\* Argument vectors of up to MaxPairs option pairs, with or without a
\* trailing key that has no value
LoadArgsWide ==
    LET whole == UNION {[1..n -> ArgPairs] : n \in 0..MaxPairs}
    IN  {Flatten(f) : f \in whole}
            \cup {Flatten(f) \o <<OptPath>> : f \in whole}

\* Load argument vectors that disable the periodic sweep
LoadArgsNoSweeper == { ArgPath \o <<OptCleanupIntervalAlt, <<"0">>>> }

\* ------------------------------------------------------------ the store

\* The keys a forward iterator yields, in order
StoreKeys(st) == SelectSeq(KeyOrder, LAMBDA k : st[k] # NoVal)

\* A faulty IsActive: only a zero header is permanent, and an entry that
\* expires at the clock reading is not counted
IsActiveZeroOrLater(val, current_time_ms) ==
    /\ Len(val) >= HeaderLen
    /\ (HeaderOf(val) = 0 \/ HeaderOf(val) > current_time_ms)

\* CountActiveKeys' test: a header is there and the entry is permanent
\* (ttl_ms <= 0) or not expired (ttl_ms >= current_time_ms)
IsActive(val, current_time_ms) ==
    /\ Len(val) >= HeaderLen
    /\ (HeaderOf(val) <= 0 \/ HeaderOf(val) >= current_time_ms)

\* CountActiveKeys at instant t, the iterator yielding n entries before it
\* turns invalid (all of them, unless the iteration fails part-way)
CountActiveKeys(st, t, n) ==
    U64(Cardinality({i \in 1..n : IsActive(st[StoreKeys(st)[i]], NowMs(t))}))

NoHandles == [options |-> FALSE, roptions |-> FALSE, woptions |-> FALSE]
AllHandles == [options |-> TRUE, roptions |-> TRUE, woptions |-> TRUE]

\* A faulty CleanupRocksDB: the store closed but db not set to NULL
CleanupRocksDBKeepsDb(cfg) ==
    [db |-> TRUE, handles |-> NoHandles, config |-> [cfg EXCEPT !.path = NoPath]]

\* CleanupRocksDB: closes the store, destroys the option objects, frees path
CleanupRocksDB(cfg) ==
    [db |-> FALSE, handles |-> NoHandles, config |-> [cfg EXCEPT !.path = NoPath]]

\* ------------------------------------------------------- load and unload

\* Where a load can fail: ValkeyModule_Init, rocksdb_open, the start-up
\* scan's iterator, the two event subscriptions, the two command
\* registrations, the info hook, pthread_create
LoadFailures ==
    {"none", "init", "open", "iter", "sub_preeviction", "sub_premiss",
     "cmd_restore", "cmd_cleanup", "info", "thread"}

Loaded(op, reply) == [NoOp EXCEPT !.op = op, !.reply = reply]

\* A faulty StartsThread: the sweeper started whatever the interval
StartsThreadAlways(cfg, fail) == fail # "thread"

\* OnLoad starts the sweeper: cleanup_interval > 0 and pthread_create
\* succeeds
StartsThread(cfg, fail) == cfg.cleanup_interval > 0 /\ fail # "thread"

\* ValkeyModule_OnLoad with arguments argv, failing at `fail`, the start-up
\* scan yielding n entries
OnLoad(argv, fail, n) ==
    LET parsed == ParseModuleArgs(config, argv)
        clean == CleanupRocksDB(parsed.cfg)
        count == CountActiveKeys(store, now, n)
        counted == [stats EXCEPT !.num_keys_stored = count]
        startThread == StartsThread(parsed.cfg, fail)
    IN
    /\ phase = "unloaded"
    /\ lastOp = NoOp
    /\ UNCHANGED thr
    /\ IF fail = "iter" THEN n < Len(StoreKeys(store))
                        ELSE n = Len(StoreKeys(store))
    /\ faults + (IF fail = "none" THEN 0 ELSE 1) <= MaxFaults
    /\ faults' = faults + (IF fail = "none" THEN 0 ELSE 1)
    /\ prevCapture' = NoPrev
    /\ UNCHANGED <<store, now, captured>>
    /\ IF fail = "init"
       THEN /\ phase' = "failed"
            /\ lastOp' = [Loaded("load", "err") EXCEPT !.argv = argv]
            /\ UNCHANGED <<db, handles, config, cleanup_thread_running, stats, seeded>>
       ELSE IF ~parsed.ok
       THEN /\ phase' = "failed"
            /\ config' = parsed.cfg
            /\ lastOp' = [Loaded("load", "err") EXCEPT !.argv = argv]
            /\ UNCHANGED <<db, handles, cleanup_thread_running, stats, seeded>>
       ELSE IF fail = "open"
       THEN \* InitRocksDB failed after rocksdb_options_create; CleanupRocksDB
            /\ phase' = "failed"
            /\ db' = clean.db /\ handles' = clean.handles /\ config' = clean.config
            /\ lastOp' = [Loaded("load", "err") EXCEPT !.argv = argv]
            /\ UNCHANGED <<cleanup_thread_running, stats, seeded>>
       ELSE IF fail \in {"sub_preeviction", "sub_premiss"}
       THEN \* return VALKEYMODULE_ERR with the store left open
            /\ phase' = "failed"
            /\ db' = TRUE /\ handles' = AllHandles /\ config' = parsed.cfg
            /\ stats' = counted /\ seeded' = count
            /\ lastOp' = [Loaded("load", "err") EXCEPT !.argv = argv]
            /\ UNCHANGED cleanup_thread_running
       ELSE IF fail \in {"cmd_restore", "cmd_cleanup"}
       THEN /\ phase' = "failed"
            /\ db' = clean.db /\ handles' = clean.handles /\ config' = clean.config
            /\ stats' = counted /\ seeded' = count
            /\ lastOp' = [Loaded("load", "err") EXCEPT !.argv = argv]
            /\ UNCHANGED cleanup_thread_running
       ELSE /\ phase' = "loaded"
            /\ db' = TRUE /\ handles' = AllHandles /\ config' = parsed.cfg
            /\ stats' = counted /\ seeded' = count
            /\ cleanup_thread_running' = IF startThread THEN 1 ELSE 0
            /\ lastOp' = [Loaded("load", "ok") EXCEPT !.argv = argv]

\* ValkeyModule_OnUnload: stop and join the sweeper, then CleanupRocksDB
OnUnload ==
    LET clean == CleanupRocksDB(config)
    IN
    /\ phase = "loaded"
    /\ lastOp = NoOp
    /\ UNCHANGED thr
    /\ phase' = "closed"
    /\ cleanup_thread_running' = 0
    /\ db' = clean.db /\ handles' = clean.handles /\ config' = clean.config
    /\ lastOp' = Loaded("unload", "ok")
    /\ prevCapture' = NoPrev
    /\ UNCHANGED <<stats, store, now, faults, seeded, captured>>

\* ------------------------------------------------------------- the clock

\* The wall clock advances to the next sampled instant
Tick ==
    /\ phase = "loaded"
    /\ \E t \in ClockPoints :
          /\ t > now
          /\ \A u \in ClockPoints : u > now => t <= u
          /\ now' = t
    /\ lastOp = NoOp
    /\ UNCHANGED thr
    /\ UNCHANGED <<phase, db, handles, config, cleanup_thread_running, stats,
                   store, faults, seeded, captured, prevCapture, lastOp>>

\* The handler that ran returns to its caller, which consumes the reply
Return ==
    /\ lastOp # NoOp
    /\ lastOp.got # "pending"
    /\ UNCHANGED thr
    /\ lastOp' = NoOp
    /\ UNCHANGED <<phase, db, handles, config, cleanup_thread_running, stats,
                   store, now, faults, seeded, captured, prevCapture>>

\* ------------------------------------------------------------- DeleteKeyFromDB

\* A faulty DeleteKeyFromDB: nothing is deleted
DeleteKeyFromDBKeeps(st, k, ok) == st

\* rocksdb_delete of key k, which succeeds (ok) or returns an error that is
\* logged and dropped
DeleteKeyFromDB(st, k, ok) ==
    IF ~db THEN st
    ELSE IF ok THEN [st EXCEPT ![k] = NoVal]
    ELSE st

\* --------------------------------------------- PreevictionKeyNotification

\* A faulty IsNewKey: every put counts as a new key
IsNewKeyAlways(val, getErr) == TRUE

\* A faulty IsNewKey: a failed existence read counts as "not present"
IsNewKeyDespiteError(val, getErr) == val = NoVal

\* is_new_key: the existence read returned no value and no error
IsNewKey(val, getErr) == val = NoVal /\ ~getErr

\* A faulty DumpUsable: every DUMP reply is taken as a payload
DumpUsableAlways(dump) == TRUE

\* The DUMP call returned a reply and the reply is a string
DumpUsable(dump) == dump.type = "string"

\* A faulty ExpiryOf: every reply that is not a positive integer stored as -1
ExpiryOfNoTtl(pttlReply, t) ==
    IF pttlReply.type = "integer" /\ pttlReply.val > 0
    THEN NowMs(t) + pttlReply.val
    ELSE -1

\* absolute expiry computed from the PTTL reply at instant t
ExpiryOf(pttlReply, t) ==
    IF pttlReply.type = "integer"
    THEN IF pttlReply.val > 0 THEN NowMs(t) + pttlReply.val ELSE pttlReply.val
    ELSE -1

\* the pre-eviction callback for `key` under event name `event`; the DUMP
\* and PTTL replies, malloc, the existence read and the put are the
\* environment's
PreevictionKeyNotification(event, key, dump, pttlReply, mallocOk, getErr, putOk) ==
    LET reaches == db /\ event = "preeviction"
        framed == reaches /\ DumpUsable(dump) /\ mallocOk
        expiry_time_ms == ExpiryOf(pttlReply, now)
        combined_data == Frame(expiry_time_ms, dump.val)
        total_len == HeaderLen + Len(dump.val)
        is_new_key == IsNewKey(store[key], getErr)
        snap == [num_keys_stored |-> stats.num_keys_stored,
                 total_keys_written |-> stats.total_keys_written,
                 is_new_key |-> is_new_key]
        rec == [NoOp EXCEPT !.op = "preeviction", !.event = event,
                            !.key = IF reaches THEN key ELSE EmptyKey,
                            !.calls = IF ~reaches THEN {}
                                      ELSE IF dump.type = "string"
                                      THEN {"DUMP", "PTTL"}
                                      ELSE {"DUMP"}]
    IN
    /\ phase \in {"unloaded", "loaded", "closed"}
    /\ lastOp = NoOp
    /\ UNCHANGED thr
    \* inputs that are not consumed take their default
    /\ ~reaches => dump = [type |-> "null", val |-> <<>>]
    /\ ~(reaches /\ dump.type = "string") => pttlReply = [type |-> "null", val |-> 0] /\ mallocOk
    /\ ~framed => ~getErr /\ putOk
    /\ faults + (IF getErr THEN 1 ELSE 0) + (IF putOk THEN 0 ELSE 1) <= MaxFaults
    /\ framed => U64Less(stats.total_keys_written, U64(MaxWrites))
    /\ faults' = faults + (IF getErr THEN 1 ELSE 0) + (IF putOk THEN 0 ELSE 1)
    /\ IF framed /\ putOk
       THEN /\ store' = [store EXCEPT ![key] = combined_data]
            /\ stats' = [stats EXCEPT
                 !.total_keys_written = FetchAndAdd(@, 1),
                 !.total_bytes_written = FetchAndAdd(@, total_len),
                 !.num_keys_stored = IF is_new_key THEN FetchAndAdd(@, 1) ELSE @]
            /\ captured' = [captured EXCEPT ![key] =
                 [pttl |-> IF pttlReply.type = "integer" THEN pttlReply.val ELSE -1,
                  at |-> IF ExpiryOf(pttlReply, now) > 0 THEN now ELSE 0,
                  dump |-> dump.val]]
            /\ prevCapture' = IF prevCapture.key = key
                               THEN [key |-> key, n |-> 2,
                                     first |-> prevCapture.second, second |-> snap]
                               ELSE [key |-> key, n |-> 1,
                                     first |-> NoSnap, second |-> snap]
       ELSE /\ prevCapture' = NoPrev
            /\ UNCHANGED <<store, stats, captured>>
    /\ lastOp' = IF framed
                 THEN [rec EXCEPT !.putOk = putOk,
                                  !.got = IF getErr THEN "err"
                                          ELSE IF store[key] = NoVal THEN "missing"
                                          ELSE "found"]
                 ELSE rec
    /\ UNCHANGED <<phase, db, handles, config, cleanup_thread_running, now,
                   seeded>>

\* ------------------------------------------------------- RestoreKeyFromDB

\* The TTL argument of RESTORE for an entry with header expiry, the clock
\* being read at instant t2
RestoreTtl(expiry, t2) ==
    IF expiry > 0
    THEN LET ttl_ms == expiry - NowMs(t2)
         IN  IF ttl_ms < 0 THEN 1 ELSE ttl_ms
    ELSE 0

\* A faulty RestoreExpired: the sweep's strict comparison
RestoreExpiredStrict(expiry, t) == expiry > 0 /\ expiry < NowMs(t)

\* The expiry check of the restore path at instant t
RestoreExpired(expiry, t) == expiry > 0 /\ expiry <= NowMs(t)

\* A faulty Materialized: only a missing reply counts as a failure
MaterializedUnlessNoReply(hostReply) == hostReply # "null"

\* The host confirmed the RESTORE: a reply came and is not an error reply
Materialized(hostReply) == hostReply = "ok"

\* RestoreKeyFromDB for `key` at instant `now`: whether rocksdb_get fails,
\* the instant t2 of the second clock read, the host's RESTORE reply and
\* whether rocksdb_delete succeeds are the environment's. Gives the return
\* value and everything the function changed or called.
\* The same from the point-get on, val being what the point-get returned
\* and t1 the instant of the clock reading of the expiry check
RestoreFromRead(val, key, getErr, t1, t2, hostReply, delOk) ==
    LET base == [result |-> -1, store |-> store, stats |-> stats,
                 call |-> NoCall, got |-> "none", dels |-> {}, delFail |-> {},
                 twoReads |-> FALSE]
    IN
    IF ~db THEN base
    ELSE IF getErr THEN [base EXCEPT !.got = "err"]
    ELSE IF val = NoVal THEN [base EXCEPT !.result = -2, !.got = "missing"]
    ELSE IF Len(val) < HeaderLen THEN [base EXCEPT !.got = "short"]
    ELSE
      LET expiry_time_ms == HeaderOf(val)
          call == [issued |-> TRUE, ttl |-> RestoreTtl(expiry_time_ms, t2),
                   dump |-> DumpOf(val), replace |-> TRUE, reply |-> hostReply]
      IN
      IF RestoreExpired(expiry_time_ms, t1)
      THEN [base EXCEPT !.result = -3, !.got = "expired",
                        !.store = DeleteKeyFromDB(store, key, delOk),
                        !.dels = {key},
                        !.delFail = IF delOk THEN {} ELSE {key}]
      ELSE IF Materialized(hostReply)
      THEN [base EXCEPT
              !.result = 0, !.got = "live", !.call = call,
              !.twoReads = expiry_time_ms > 0,
              !.stats = [stats EXCEPT
                  !.total_keys_restored = FetchAndAdd(@, 1),
                  !.total_bytes_read = FetchAndAdd(@, Len(val)),
                  !.num_keys_stored = FetchAndSub(@, 1)],
              !.store = DeleteKeyFromDB(store, key, delOk),
              !.dels = {key},
              !.delFail = IF delOk THEN {} ELSE {key}]
      ELSE [base EXCEPT !.got = "live", !.call = call,
                        !.twoReads = expiry_time_ms > 0]

\* The same with the clock read at the instant of the point-get
RestoreFromValue(val, key, getErr, t2, hostReply, delOk) ==
    RestoreFromRead(val, key, getErr, now, t2, hostReply, delOk)

RestoreKeyFromDB(key, getErr, t2, hostReply, delOk) ==
    RestoreFromValue(store[key], key, getErr, t2, hostReply, delOk)

\* The environment's inputs that a run of RestoreKeyFromDB did not consume
\* are at their defaults
RestoreInputsUsed(r, getErr, t2, hostReply, delOk) ==
    /\ (r.got = "none") => ~getErr
    /\ ~r.twoReads => t2 = now
    /\ ~r.call.issued => hostReply = "ok"
    /\ (r.dels = {}) => delOk

RestoreFaults(getErr, delOk) ==
    (IF getErr THEN 1 ELSE 0) + (IF delOk THEN 0 ELSE 1)

\* The capture records after a run of RestoreKeyFromDB: an entry that left
\* the store takes its capture record with it
CapturedAfter(st) ==
    [k \in Keys |-> IF st[k] = NoVal THEN NoCapture ELSE captured[k]]

RestoreRecord(op, key, reply, r) ==
    [NoOp EXCEPT !.op = op, !.key = key, !.reply = reply, !.result = r.result,
                 !.got = r.got, !.call = r.call, !.dels = r.dels,
                 !.delFail = r.delFail]

\* the pre-miss callback for `key` under event name `event`
PremissNotification(event, key, getErr, t2, hostReply, delOk) ==
    LET reaches == db /\ event = "premiss"
        r == RestoreKeyFromDB(key, getErr, t2, hostReply, delOk)
    IN
    /\ phase \in {"unloaded", "loaded", "closed"}
    /\ lastOp = NoOp
    /\ UNCHANGED thr
    /\ t2 \in LaterReads(now)
    /\ IF reaches
       THEN /\ RestoreInputsUsed(r, getErr, t2, hostReply, delOk)
            /\ faults + RestoreFaults(getErr, delOk) <= MaxFaults
            /\ faults' = faults + RestoreFaults(getErr, delOk)
            /\ store' = r.store /\ stats' = r.stats
            /\ captured' = CapturedAfter(r.store)
            /\ now' = t2
            /\ lastOp' = [RestoreRecord("premiss", key, "none", r)
                             EXCEPT !.event = event]
       ELSE /\ ~getErr /\ t2 = now /\ hostReply = "ok" /\ delOk
            /\ lastOp' = [NoOp EXCEPT !.op = "premiss", !.event = event]
            /\ UNCHANGED <<store, stats, captured, now, faults>>
    /\ prevCapture' = NoPrev
    /\ UNCHANGED <<phase, db, handles, config, cleanup_thread_running, seeded>>

\* ----------------------------------------------------------- RestoreCommand

ReplyOK == "OK"
ReplyNull == "(nil)"
ERR_DB_NOT_INIT == "ERR RocksDB not initialized"
ERR_CORRUPTED_DATA == "ERR Corrupted data in RocksDB"
ERR_EXPIRED == "ERR Key has expired"
ERR_INVALID_KEY == "ERR Invalid key data"
ERR_WRONG_ARITY == "ERR wrong number of arguments"

\* A faulty RestoreReply: the switch without its case for -3
RestoreReplyNoExpired(result) ==
    CASE result = 0 -> ReplyOK
      [] result = -2 -> ReplyNull
      [] OTHER -> ERR_CORRUPTED_DATA

\* A faulty RestoreReply: the switch without its default case, every other
\* return value replied as null
RestoreReplyNoDefault(result) ==
    CASE result = 0 -> ReplyOK
      [] result = -3 -> ERR_EXPIRED
      [] OTHER -> ReplyNull

\* the switch on RestoreKeyFromDB's return value
RestoreReply(result) ==
    CASE result = 0 -> ReplyOK
      [] result = -2 -> ReplyNull
      [] result = -3 -> ERR_EXPIRED
      [] OTHER -> ERR_CORRUPTED_DATA

\* argument vectors of spill.restore: the command name, then the arguments
RestoreArgvs ==
    {<<"spill.restore">>}
        \cup {<<"spill.restore", k>> : k \in Keys \cup {EmptyKey}}
        \cup {<<"spill.restore", k, k>> : k \in {<<97>>}}

\* spill.restore with argument vector argv; inMem tells whether the host
\* holds a key of that name, which the command never asks: its RESTORE call
\* carries REPLACE
RestoreCommand(argv, inMem, getErr, t2, hostReply, delOk) ==
    LET argc == Len(argv)
        key == IF argc >= 2 THEN argv[2] ELSE EmptyKey
        early == IF argc # 2 THEN ERR_WRONG_ARITY
                 ELSE IF ~db THEN ERR_DB_NOT_INIT
                 ELSE IF Len(key) = 0 THEN ERR_INVALID_KEY
                 ELSE "none"
        r == RestoreKeyFromDB(key, getErr, t2, hostReply, delOk)
    IN
    /\ phase \in {"unloaded", "loaded", "closed"}
    /\ lastOp = NoOp
    /\ UNCHANGED thr
    /\ t2 \in LaterReads(now)
    /\ IF early = "none"
       THEN /\ RestoreInputsUsed(r, getErr, t2, hostReply, delOk)
            /\ faults + RestoreFaults(getErr, delOk) <= MaxFaults
            /\ faults' = faults + RestoreFaults(getErr, delOk)
            /\ store' = r.store /\ stats' = r.stats
            /\ captured' = CapturedAfter(r.store)
            /\ now' = t2
            /\ lastOp' = [RestoreRecord("restore", key, RestoreReply(r.result), r)
                             EXCEPT !.argc = argc, !.inMem = inMem]
       ELSE /\ ~getErr /\ t2 = now /\ hostReply = "ok" /\ delOk /\ ~inMem
            /\ lastOp' = [NoOp EXCEPT !.op = "restore", !.argc = argc,
                                      !.key = key, !.reply = early]
            /\ UNCHANGED <<store, stats, captured, now, faults>>
    /\ prevCapture' = NoPrev
    /\ UNCHANGED <<phase, db, handles, config, cleanup_thread_running, seeded>>

\* ---------------------------------------------------------------- sweeps

\* A faulty SweepExpired: the expiry compared with the clock in seconds
SweepExpiredInSeconds(val, current_time_ms) ==
    /\ Len(val) >= HeaderLen
    /\ HeaderOf(val) > 0
    /\ HeaderOf(val) < current_time_ms \div MsPerSec

\* The sweep's test on an entry: a header is there, the TTL is set
\* (positive) and has expired (ttl_ms < current_time_ms)
SweepExpired(val, current_time_ms) ==
    /\ Len(val) >= HeaderLen
    /\ HeaderOf(val) > 0
    /\ HeaderOf(val) < current_time_ms

\* The loop shared by PerformCleanup and CleanupCommand, started at instant
\* t over store st with num_keys_stored = stored: the iterator yields n
\* entries before the loop ends, rocksdb_delete fails for the keys in
\* failed. Gives the store and num_keys_stored it leaves and its counts.
SweepLoop(st, stored, t, n, failed) ==
    LET keys == StoreKeys(st)
        visited == {keys[i] : i \in 1..n}
        expired == {k \in visited : SweepExpired(st[k], NowMs(t))}
    IN  [ store |-> [k \in Keys |->
                       IF k \in expired
                       THEN DeleteKeyFromDB(st, k, k \notin failed)[k]
                       ELSE st[k]],
          num_keys_stored |-> FetchAndSub(stored, Cardinality(expired)),
          num_keys_scanned |-> n,
          num_keys_cleaned |-> Cardinality(expired),
          dels |-> expired,
          delFail |-> expired \cap failed,
          complete |-> n = Len(keys) ]

\* The inputs of a sweep: iterErr, the iterator ends with an error; n, the
\* entries it yielded; failed, the keys whose delete fails
SweepInputs(iterErr, n, failed) ==
    /\ n \in 0..Len(StoreKeys(store))
    /\ ~iterErr => n = Len(StoreKeys(store))
    /\ failed \subseteq {k \in Keys : store[k] # NoVal
                                     /\ SweepExpired(store[k], NowMs(now))}
    /\ \A k \in failed : \E i \in 1..n : StoreKeys(store)[i] = k
    /\ faults + (IF iterErr THEN 1 ELSE 0) + Cardinality(failed) <= MaxFaults
    /\ faults' = faults + (IF iterErr THEN 1 ELSE 0) + Cardinality(failed)

SweepRecord(op, reply, w, iterErr) ==
    [NoOp EXCEPT !.op = op, !.reply = reply, !.got = IF iterErr THEN "err" ELSE "none",
                 !.dels = w.dels, !.delFail = w.delFail,
                 !.scanned = w.num_keys_scanned, !.cleaned = w.num_keys_cleaned,
                 !.complete = w.complete]

\* The counters after PerformCleanup: the loop's decrements, then the
\* totals, the clock being read again at t2
SweepTotals(w, t2) ==
    [stats EXCEPT
        !.num_keys_stored = w.num_keys_stored,
        !.total_keys_cleaned = U64Plus(@, U64(w.num_keys_cleaned)),
        !.last_num_keys_cleaned = U64(w.num_keys_cleaned),
        !.last_cleanup_at = NowSec(t2)]

\* One periodic sweep of the sweeper thread, run to its end without the
\* run flag being cleared: PerformCleanup, called from CleanupThreadFunc
PerformCleanup(iterErr, n, failed, t2) ==
    LET w == SweepLoop(store, stats.num_keys_stored, now, n, failed)
    IN
    /\ phase = "loaded"
    /\ lastOp = NoOp
    /\ UNCHANGED thr
    /\ cleanup_thread_running = 1
    /\ config.cleanup_interval > 0
    /\ db
    /\ SweepInputs(iterErr, n, failed)
    /\ t2 \in LaterReads(now)
    /\ store' = w.store
    /\ stats' = SweepTotals(w, t2)
    /\ captured' = CapturedAfter(w.store)
    /\ now' = t2
    /\ lastOp' = SweepRecord("sweep", "none", w, iterErr)
    /\ prevCapture' = NoPrev
    /\ UNCHANGED <<phase, db, handles, config, cleanup_thread_running, seeded>>

ReplyArray == "array"
ReplyIterError == "ERR iterator"

\* spill.cleanup
CleanupCommand(iterErr, n, failed, t2) ==
    LET w == SweepLoop(store, stats.num_keys_stored, now, n, failed)
    IN
    /\ phase \in {"unloaded", "loaded", "closed"}
    /\ lastOp = NoOp
    /\ UNCHANGED thr
    /\ t2 \in LaterReads(now)
    /\ IF ~db
       THEN /\ ~iterErr /\ n = 0 /\ failed = {} /\ t2 = now
            /\ lastOp' = [NoOp EXCEPT !.op = "cleanup", !.reply = ERR_DB_NOT_INIT]
            /\ UNCHANGED <<store, stats, captured, now, faults>>
       ELSE /\ SweepInputs(iterErr, n, failed)
            /\ store' = w.store
            /\ captured' = CapturedAfter(w.store)
            /\ IF iterErr
               THEN \* the error reply; the totals are not updated
                    /\ t2 = now
                    /\ stats' = [stats EXCEPT !.num_keys_stored = w.num_keys_stored]
                    /\ lastOp' = SweepRecord("cleanup", ReplyIterError, w, iterErr)
               ELSE /\ stats' = [stats EXCEPT
                          !.num_keys_stored = w.num_keys_stored,
                          !.total_keys_cleaned = U64Plus(@, U64(w.num_keys_cleaned)),
                          !.last_num_keys_cleaned = U64(w.num_keys_cleaned),
                          !.last_cleanup_at = NowSec(t2)]
                    /\ lastOp' = SweepRecord("cleanup", ReplyArray, w, iterErr)
            /\ now' = t2
    /\ prevCapture' = NoPrev
    /\ UNCHANGED <<phase, db, handles, config, cleanup_thread_running, seeded>>

\* ------------------------------------------------------ the two threads

\* A restore of the host thread, in two steps. First the point-get of the
\* pre-miss callback or of spill.restore (op) for key, the store being open
RestoreGet(op, key) ==
    /\ phase = "loaded"
    /\ db
    /\ lastOp = NoOp
    /\ op \in {"premiss", "restore"}
    /\ lastOp' = [NoOp EXCEPT !.op = op, !.key = key, !.got = "pending",
                              !.argc = IF op = "restore" THEN 2 ELSE 0,
                              !.event = IF op = "premiss" THEN op ELSE "none"]
    /\ thr' = [thr EXCEPT !.val = store[key], !.rt = now]
    /\ prevCapture' = NoPrev
    /\ UNCHANGED <<phase, db, handles, config, cleanup_thread_running, stats,
                   store, now, faults, seeded, captured>>

\* then the rest of RestoreKeyFromDB over the value the point-get returned
RestoreAct(t2, hostReply, delOk) ==
    LET key == lastOp.key
        r == RestoreFromRead(thr.val, key, FALSE, thr.rt, t2, hostReply,
                             delOk)
    IN
    /\ lastOp.got = "pending"
    /\ t2 \in LaterReads(now)
    /\ RestoreInputsUsed(r, FALSE, t2, hostReply, delOk)
    /\ faults + RestoreFaults(FALSE, delOk) <= MaxFaults
    /\ faults' = faults + RestoreFaults(FALSE, delOk)
    /\ store' = r.store /\ stats' = r.stats
    /\ captured' = CapturedAfter(r.store)
    /\ now' = t2
    /\ lastOp' = [RestoreRecord(lastOp.op, key,
                                IF lastOp.op = "restore"
                                THEN RestoreReply(r.result) ELSE "none", r)
                     EXCEPT !.argc = lastOp.argc, !.event = lastOp.event]
    /\ thr' = [thr EXCEPT !.val = <<>>, !.rt = 0]
    /\ UNCHANGED <<phase, db, handles, config, cleanup_thread_running, seeded,
                   prevCapture>>

\* The wall clock advances while a restore is between its clock reading
\* and its host call
TickInFlight ==
    /\ lastOp.got = "pending"
    /\ \E t \in ClockPoints :
          /\ t > now
          /\ \A u \in ClockPoints : u > now => t <= u
          /\ now' = t
    /\ UNCHANGED <<phase, db, handles, config, cleanup_thread_running, stats,
                   store, faults, seeded, captured, prevCapture, lastOp, thr>>

\* The sweeper thread runs: it was created and has not returned
ThreadAlive ==
    /\ thr.pc # "exited"
    /\ \/ phase = "loaded" /\ cleanup_thread_running = 1
       \/ phase \in {"unloading", "closed"}

\* CleanupThreadFunc: the for loop of 1-second sleeps ends, the interval
\* being over or the run flag cleared
ThreadWake ==
    /\ ThreadAlive
    /\ thr.pc = "sleep"
    /\ thr' = [thr EXCEPT !.pc = "woke"]
    /\ UNCHANGED <<phase, db, handles, config, cleanup_thread_running, stats,
                   store, now, faults, seeded, captured, prevCapture, lastOp>>

\* CleanupThreadFunc after the sleep: break when the flag is cleared, skip
\* the sweep when the interval is not positive, else call PerformCleanup
ThreadCheck ==
    /\ ThreadAlive
    /\ thr.pc = "woke"
    /\ thr' = [thr EXCEPT !.pc = IF cleanup_thread_running = 0 THEN "exited"
                                 ELSE IF config.cleanup_interval <= 0
                                 THEN "sleep"
                                 ELSE "enter"]
    /\ UNCHANGED <<phase, db, handles, config, cleanup_thread_running, stats,
                   store, now, faults, seeded, captured, prevCapture, lastOp>>

\* A faulty AfterSweep: the thread returns after its first sweep
AfterSweepReturns == "exited"

\* Where the sweeper goes when PerformCleanup has returned: the while test
AfterSweep == IF cleanup_thread_running = 1 THEN "sleep" ELSE "exited"

\* PerformCleanup up to its loop: the clock is read and the iterator
\* created, which sees the store as it is now
SweepBegin ==
    /\ ThreadAlive
    /\ thr.pc = "enter"
    /\ thr' = IF ~db THEN [thr EXCEPT !.pc = AfterSweep]
              ELSE [thr EXCEPT !.pc = "loop", !.snap = store, !.t = now,
                               !.i = 0, !.cleaned = 0]
    /\ UNCHANGED <<phase, db, handles, config, cleanup_thread_running, stats,
                   store, now, faults, seeded, captured, prevCapture, lastOp>>

\* A faulty LoopContinues: the sweep runs to the iterator's end
LoopIgnoresFlag(valid, flag) == valid

\* The loop condition: rocksdb_iter_valid(iter) && cleanup_thread_running
LoopContinues(valid, flag) == valid /\ flag # 0

\* The loop test of PerformCleanup
SweepTest ==
    /\ ThreadAlive
    /\ thr.pc = "loop"
    /\ thr' = [thr EXCEPT !.pc =
                  IF LoopContinues(thr.i < Len(StoreKeys(thr.snap)),
                                   cleanup_thread_running)
                  THEN "visit" ELSE "finish"]
    /\ UNCHANGED <<phase, db, handles, config, cleanup_thread_running, stats,
                   store, now, faults, seeded, captured, prevCapture, lastOp>>

\* A faulty AtomicSub: the update is lost
LostSub(a, n) == a

\* __sync_fetch_and_sub on the counter's current value
AtomicSub(a, n) == FetchAndSub(a, n)

\* The loop body for the iterator's current entry: an entry the iterator
\* shows as expired is deleted from the store by key and counted
SweepVisit(delOk) ==
    LET k == StoreKeys(thr.snap)[thr.i + 1]
        expired == SweepExpired(thr.snap[k], NowMs(thr.t))
        st == DeleteKeyFromDB(store, k, delOk)
    IN
    /\ ThreadAlive
    /\ thr.pc = "visit"
    /\ ~expired => delOk
    /\ faults + (IF delOk THEN 0 ELSE 1) <= MaxFaults
    /\ faults' = faults + (IF delOk THEN 0 ELSE 1)
    /\ IF expired
       THEN /\ store' = st
            /\ captured' = CapturedAfter(st)
            /\ stats' = [stats EXCEPT
                            !.num_keys_stored = AtomicSub(@, 1)]
            /\ thr' = [thr EXCEPT !.pc = "loop", !.i = @ + 1,
                                  !.cleaned = @ + 1]
       ELSE /\ thr' = [thr EXCEPT !.pc = "loop", !.i = @ + 1]
            /\ UNCHANGED <<store, captured, stats>>
    /\ UNCHANGED <<phase, db, handles, config, cleanup_thread_running, now,
                   seeded, prevCapture, lastOp>>

\* PerformCleanup after its loop: the iterator is destroyed, the totals
\* are updated, and the thread is back at its while test
SweepFinish ==
    /\ ThreadAlive
    /\ thr.pc = "finish"
    /\ stats' = [stats EXCEPT
          !.total_keys_cleaned = FetchAndAdd(@, thr.cleaned),
          !.last_num_keys_cleaned = U64(thr.cleaned),
          !.last_cleanup_at = NowSec(now)]
    /\ thr' = [NoThread EXCEPT !.pc = AfterSweep, !.val = thr.val,
                                !.rt = thr.rt]
    /\ UNCHANGED <<phase, db, handles, config, cleanup_thread_running, store,
                   now, faults, seeded, captured, prevCapture, lastOp>>

\* ValkeyModule_OnUnload up to pthread_join: the run flag is cleared when
\* it was set
UnloadSignal ==
    /\ phase = "loaded"
    /\ lastOp = NoOp
    /\ phase' = "unloading"
    /\ cleanup_thread_running' = 0
    /\ thr' = IF cleanup_thread_running = 1 THEN thr
              ELSE [thr EXCEPT !.pc = "exited"]
    /\ UNCHANGED <<db, handles, config, stats, store, now, faults, seeded,
                   captured, prevCapture, lastOp>>

\* A faulty Joined: OnUnload does not wait for the sweeper
JoinedAlways(t) == TRUE

\* pthread_join returns: the sweeper has returned from CleanupThreadFunc
\* (or was never joined because the flag was not set)
Joined(t) == t.pc = "exited"

\* ValkeyModule_OnUnload from the join on: CleanupRocksDB
UnloadClose ==
    LET clean == CleanupRocksDB(config)
    IN
    /\ phase = "unloading"
    /\ Joined(thr)
    /\ phase' = "closed"
    /\ db' = clean.db /\ handles' = clean.handles /\ config' = clean.config
    /\ lastOp' = Loaded("unload", "ok")
    /\ prevCapture' = NoPrev
    /\ UNCHANGED <<cleanup_thread_running, stats, store, now, faults, seeded,
                   captured, thr>>

\* ------------------------------------------------------- the specification

Events == {"preeviction", "premiss", "NULL"}

\* The host loads the module with some argument vector
Load ==
    \E argv \in LoadArgs, fail \in LoadFailures, n \in 0..Cardinality(Keys) :
        OnLoad(argv, fail, n)

\* The host loads the module with cleanup-interval 0
LoadNoSweeper ==
    \E argv \in LoadArgsNoSweeper, fail \in LoadFailures,
       n \in 0..Cardinality(Keys) :
        OnLoad(argv, fail, n)

\* The host loads the module with an argument vector of any shape
LoadWide ==
    \E argv \in LoadArgsWide, fail \in LoadFailures,
       n \in 0..Cardinality(Keys) :
        OnLoad(argv, fail, n)

\* The host evicts a key: the subscribed pre-eviction callback runs
Evict ==
    \E e \in Events, k \in Keys, dr \in DumpReplies, r \in PttlReplies,
       m, g, u \in BOOLEAN :
        PreevictionKeyNotification(e, k, dr, r, m, g, u)

\* The pre-eviction callback is entered while the store handle is not open,
\* or under an event name that is not its own
EvictIdle ==
    \E e \in Events, k \in Keys, dr \in DumpReplies, r \in PttlReplies,
       m, g, u \in BOOLEAN :
        /\ ~db \/ e # "preeviction"
        /\ PreevictionKeyNotification(e, k, dr, r, m, g, u)

\* A lookup misses: the subscribed pre-miss callback runs
Miss ==
    \E e \in Events, k \in Keys, g, d \in BOOLEAN, t2 \in ClockPoints,
       h \in RestoreReplies :
        PremissNotification(e, k, g, t2, h, d)

\* A client sends spill.restore
Restore ==
    \E argv \in RestoreArgvs, g, d \in BOOLEAN, t2 \in ClockPoints,
       h \in RestoreReplies :
        RestoreCommand(argv, FALSE, g, t2, h, d)

\* A client sends spill.restore for a key that is in the host's memory
RestoreOver ==
    \E argv \in RestoreArgvs, g, d \in BOOLEAN, t2 \in ClockPoints,
       h \in RestoreReplies :
        RestoreCommand(argv, TRUE, g, t2, h, d)

\* The sweeper thread's sleep ends
Sweep ==
    \E i \in BOOLEAN, n \in 0..Cardinality(Keys), f \in SUBSET Keys,
       t2 \in ClockPoints :
        PerformCleanup(i, n, f, t2)

\* A client sends spill.cleanup
Cleanup ==
    \E i \in BOOLEAN, n \in 0..Cardinality(Keys), f \in SUBSET Keys,
       t2 \in ClockPoints :
        CleanupCommand(i, n, f, t2)

Next ==
    \/ Load \/ LoadNoSweeper \/ LoadWide \/ OnUnload \/ Tick \/ Return
    \/ Evict \/ Miss \/ Restore \/ RestoreOver \/ Sweep \/ Cleanup

Spec == Init /\ [][Next]_vars

\* The module under evictions only
NextCapture == Load \/ Tick \/ Return \/ Evict
SpecCapture == Init /\ [][NextCapture]_vars

\* The module under evictions and restores
NextRestore == Load \/ Tick \/ Return \/ Evict \/ Miss \/ Restore
SpecRestore == Init /\ [][NextRestore]_vars

\* The module under evictions and sweeps
NextSweep == Load \/ Tick \/ Return \/ Evict \/ Sweep \/ Cleanup
SpecSweep == Init /\ [][NextSweep]_vars

\* The module under evictions and spill.restore of keys the host holds
NextReplace == Load \/ Tick \/ Return \/ Evict \/ RestoreOver
SpecReplace == Init /\ [][NextReplace]_vars

\* The module loaded with and without the periodic sweep
NextInterval == Load \/ LoadNoSweeper \/ Tick \/ Return \/ Sweep \/ Cleanup
SpecInterval == Init /\ [][NextInterval]_vars

\* The module loaded with argument vectors of any shape, then unloaded
NextArgs == LoadWide \/ OnUnload \/ Return
SpecArgs == Init /\ [][NextArgs]_vars

\* The sweeper thread takes a step
Sweeper ==
    \/ ThreadWake \/ ThreadCheck \/ SweepBegin \/ SweepTest
    \/ (\E d \in BOOLEAN : SweepVisit(d))
    \/ SweepFinish

\* A lookup misses or a client sends spill.restore: the point-get
MissGet == \E op \in {"premiss", "restore"}, k \in Keys : RestoreGet(op, k)

\* and the rest of the restore
MissAct ==
    \E d \in BOOLEAN, t2 \in ClockPoints, h \in RestoreReplies :
        RestoreAct(t2, h, d)

\* The host evicts a key that dumps to two bytes, with a TTL or without,
\* and the callback stores it
Respill ==
    \E k \in Keys, r \in {x \in PttlReplies : x.type = "integer"} :
        PreevictionKeyNotification("preeviction", k,
            [type |-> "string", val |-> <<0, 7>>], r, TRUE, FALSE, TRUE)

\* The host loads the module and the load succeeds
LoadPlain == \E n \in 0..Cardinality(Keys) : OnLoad(ArgPath, "none", n)

\* A lookup misses: the point-get of the pre-miss callback
MissGetCb == \E k \in Keys : RestoreGet("premiss", k)

\* and the rest of the restore, its delete succeeding
MissActOk ==
    \E t2 \in ClockPoints, h \in RestoreReplies : RestoreAct(t2, h, TRUE)

\* PTTL replies of every kind: a remaining lifetime, 0, -1 (no expiry),
\* -2 (no such key), and a reply that is no integer
PttlRepliesWide ==
    {[type |-> "integer", val |-> v] : v \in {-2, -1, 0, MsPerSec}}
        \cup {[type |-> "null", val |-> 0]}

\* The pre-eviction callback stores key k, the host's PTTL reply being r
Encode(k, r) ==
    PreevictionKeyNotification("preeviction", k,
        [type |-> "string", val |-> <<0, 7>>], r, TRUE, FALSE, TRUE)

\* The host evicts a key with a PTTL reply of any kind
EvictEncoded == \E k \in Keys, r \in PttlRepliesWide : Encode(k, r)

\* Evictions under every kind of PTTL reply, and restores
NextEncode == LoadPlain \/ Tick \/ Return \/ EvictEncoded \/ Miss \/ Restore
SpecEncode == Init /\ [][NextEncode]_vars

\* The module loaded over any store directory
NextSeed == Load \/ Tick \/ Return
SpecSeed == InitSeed /\ [][NextSeed]_vars

\* The loaded module left to its sweeper while the clock advances
NextReclaim == Load \/ Tick \/ Return \/ Sweeper
SpecReclaim == Init /\ [][NextReclaim]_vars

\* The same with the clock advancing, the host returning from its handlers
\* and the sweeper thread scheduled: each takes a step eventually when it
\* can
SpecReclaimFair ==
    /\ SpecReclaim
    /\ WF_vars(Tick)
    /\ WF_vars(Return)
    /\ WF_vars(Sweeper)

\* The module with its sweeper thread running beside the host thread
NextThreads ==
    \/ Load \/ Tick \/ Return \/ Evict \/ MissGet \/ MissAct \/ Cleanup
    \/ Sweeper \/ UnloadSignal \/ UnloadClose
SpecThreads == Init /\ [][NextThreads]_vars

\* The sweeper beside evictions
NextRespill == Load \/ Tick \/ Return \/ Respill \/ Sweeper
SpecRespill == Init /\ [][NextRespill]_vars

\* The sweeper beside the unload
NextTeardown ==
    \/ Load \/ LoadNoSweeper \/ Tick \/ Return
    \/ Sweeper \/ UnloadSignal \/ UnloadClose
SpecTeardown == Init /\ [][NextTeardown]_vars

\* The same with both threads scheduled: a thread that can take a step
\* takes one eventually
SpecTeardownFair ==
    /\ SpecTeardown
    /\ WF_vars(Sweeper)
    /\ WF_vars(UnloadClose)

\* The sweeper beside restores
NextRace ==
    Load \/ Tick \/ TickInFlight \/ Return \/ MissGet \/ MissAct \/ Sweeper
SpecRace == Init /\ [][NextRace]_vars

\* The sweeper beside evictions and restores
NextCounters ==
    LoadPlain \/ Return \/ Respill \/ MissGetCb \/ MissActOk \/ Sweeper
SpecCounters == Init /\ [][NextCounters]_vars

\* The sweeper beside spill.cleanup
NextDouble == Load \/ Tick \/ Return \/ Cleanup \/ Sweeper
SpecDouble == Init /\ [][NextDouble]_vars

\* The module from load to unload over the store it found, every handler
\* callable at every stage
NextLifecycle ==
    \/ Load \/ OnUnload \/ Tick \/ Return
    \/ EvictIdle \/ Miss \/ Restore \/ Cleanup
SpecLifecycle == Init /\ [][NextLifecycle]_vars

\* ------------------------------------------------------------- properties

\* An entry is expired at instant t: it has a header, its expiry is positive
\* and not after the module's clock reading
EntryExpired(val, t) ==
    /\ Len(val) >= HeaderLen
    /\ HeaderOf(val) > 0
    /\ HeaderOf(val) <= NowMs(t)

\* This step runs the pre-miss callback or spill.restore for key k, and its
\* point-get returns the stored value of k
RestoreReads(k) ==
    /\ lastOp = NoOp
    /\ lastOp'.op \in {"premiss", "restore"}
    /\ lastOp'.key = k
    /\ lastOp'.got \in {"short", "expired", "live"}

\* This step runs a periodic sweep or spill.cleanup
SweepRuns ==
    /\ lastOp = NoOp
    /\ lastOp'.op \in {"sweep", "cleanup"}

\* The sum of three uint64_t values as an unbounded number, in five limbs
WideSum(a, b, c) ==
    LET s1 == a[1] + b[1] + c[1]
        s2 == a[2] + b[2] + c[2] + (s1 \div LimbBase)
        s3 == a[3] + b[3] + c[3] + (s2 \div LimbBase)
        s4 == a[4] + b[4] + c[4] + (s3 \div LimbBase)
    IN  <<s1 % LimbBase, s2 % LimbBase, s3 % LimbBase, s4 % LimbBase,
          s4 \div LimbBase>>

WideLeq(x, y) ==
    \/ x = y
    \/ \E i \in 1..5 : x[i] < y[i] /\ \A j \in (i + 1)..5 : x[j] = y[j]

\* C1  Payload round trip: when the pre-eviction callback stored key k with
\* payload p and a later pre-miss callback or spill.restore for k reads the
\* entry and finds it not expired, the RESTORE call is issued with exactly
\* the bytes p, which are the stored value minus its 8-byte header, and when
\* the captured PTTL was -1 the TTL argument of the call is 0.
C1_PayloadRoundTrip ==
    [][\A k \in Keys :
         (RestoreReads(k) /\ captured[k] # NoCapture
              /\ ~EntryExpired(store[k], now))
         => /\ lastOp'.call.issued
            /\ lastOp'.call.dump = captured[k].dump
            /\ Frame(HeaderOf(store[k]), lastOp'.call.dump) = store[k]
            /\ (captured[k].pttl = -1 => lastOp'.call.ttl = 0)]_vars

\* C1 happens: a RESTORE call for a key captured without expiry and with the
\* payload that contains a NUL byte carried that payload and TTL 0
C1_Witness ==
    /\ lastOp.op \in {"premiss", "restore"}
    /\ lastOp.call.issued
    /\ lastOp.key \in Keys
    /\ captured[lastOp.key].pttl = -1
    /\ captured[lastOp.key].dump = <<0, 7>>
    /\ lastOp.call.dump = <<0, 7>>
    /\ lastOp.call.ttl = 0

\* C2  Expired never materialized: when the pre-miss callback or
\* spill.restore reads an entry with expiry_ms > 0 and expiry_ms <= now_ms(),
\* it issues no RESTORE call and calls the store's delete for the entry,
\* which is gone afterwards unless that delete returned an error.
C2_ExpiredNeverMaterialized ==
    [][\A k \in Keys :
         (RestoreReads(k) /\ EntryExpired(store[k], now))
         => /\ ~lastOp'.call.issued
            /\ k \in lastOp'.dels
            /\ (k \notin lastOp'.delFail => store'[k] = NoVal)]_vars

\* C2 happens: a restore found its entry expired, made no RESTORE call and
\* deleted the entry
C2_Witness ==
    /\ lastOp.op \in {"premiss", "restore"}
    /\ lastOp.got = "expired"
    /\ ~lastOp.call.issued
    /\ lastOp.dels = {lastOp.key}
    /\ lastOp.delFail = {}
    /\ store[lastOp.key] = NoVal

\* C3  At-most-one present: after the pre-miss callback or spill.restore
\* succeeded for key k (the RESTORE reply was not an error and the function
\* returned 0, so the command replied OK), the store holds no entry for k.
C3_AtMostOnePresent ==
    (lastOp.op \in {"premiss", "restore"} /\ lastOp.call.reply = "ok"
         /\ lastOp.result = 0)
    => store[lastOp.key] = NoVal

\* C4  Finite-TTL round trip: for a key captured with a positive PTTL t and
\* restored before its expiry, the TTL passed to the RESTORE call differs
\* from the true remaining lifetime (t minus the wall-clock time elapsed
\* between capture and restore) by at most 1 ms; capture and restore read
\* the same host's clock, so there is no skew to add.
C4_FiniteTtlRoundTrip ==
    [][\A k \in Keys :
         (RestoreReads(k) /\ captured[k].pttl > 0 /\ lastOp'.call.issued
              /\ now' < captured[k].at + captured[k].pttl)
         => LET remaining == captured[k].at + captured[k].pttl - now'
            IN  lastOp'.call.ttl - remaining \in -1..1]_vars

\* C5  Idempotent overwrite, as the code has it: after two consecutive
\* pre-eviction events that stored the same key, the store holds one entry
\* for the key whose payload is that of the second capture,
\* total_keys_written has grown by 2, and num_keys_stored has grown by 1 if
\* the first event's existence read found no entry and by 0 otherwise.
C5_IdempotentOverwrite ==
    prevCapture.n = 2 =>
        LET k == prevCapture.key
            before == prevCapture.first
        IN  /\ store[k] # NoVal
            /\ DumpOf(store[k]) = captured[k].dump
            /\ stats.total_keys_written = U64Plus(before.total_keys_written, U64(2))
            /\ stats.num_keys_stored =
                   U64Plus(before.num_keys_stored,
                           U64(IF before.is_new_key THEN 1 ELSE 0))

\* C5 as stated: num_keys_stored grows by 1 in total over the two events
C5_GrowsByOne ==
    prevCapture.n = 2 =>
        LET k == prevCapture.key
            before == prevCapture.first
        IN  /\ store[k] # NoVal
            /\ DumpOf(store[k]) = captured[k].dump
            /\ stats.total_keys_written = U64Plus(before.total_keys_written, U64(2))
            /\ stats.num_keys_stored = U64Plus(before.num_keys_stored, U64(1))

\* C5 happens: two consecutive events stored one key, the first of them as
\* a new key, and num_keys_stored is one more than before the first
C5_Witness ==
    /\ prevCapture.n = 2
    /\ prevCapture.first.is_new_key
    /\ lastOp.op = "preeviction"
    /\ lastOp.got = "found"
    /\ stats.num_keys_stored = U64Plus(prevCapture.first.num_keys_stored, U64(1))

\* C6  Counter conservation: in every reachable state total_keys_written >=
\* num_keys_stored + total_keys_restored + total_keys_cleaned -
\* initial_count, the counters read as unsigned numbers.
C6_CounterConservation ==
    WideLeq(WideSum(stats.num_keys_stored, stats.total_keys_restored,
                    stats.total_keys_cleaned),
            WideSum(stats.total_keys_written, seeded, U64(0)))

C8_ExpiredObservedDeleted ==
    [][/\ \A k \in Keys :
            (RestoreReads(k) /\ EntryExpired(store[k], now))
            => k \in lastOp'.dels
       /\ (SweepRuns /\ lastOp'.complete)
            => \A k \in Keys :
                 (store[k] # NoVal /\ EntryExpired(store[k], now))
                 => k \in lastOp'.dels]_vars

\* C9  Expired on restore: when spill.restore or the pre-miss callback reads
\* an entry with expiry_ms > 0 and expiry_ms <= now_ms(), it deletes the
\* entry and decrements num_keys_stored by 1, spill.restore replies
\* 'ERR Key has expired', and the entry is absent afterwards.
C9_ExpiredOnRestore ==
    [][\A k \in Keys :
         (RestoreReads(k) /\ EntryExpired(store[k], now)
              /\ k \notin lastOp'.delFail)
         => /\ store'[k] = NoVal
            /\ stats'.num_keys_stored = FetchAndSub(stats.num_keys_stored, 1)
            /\ (lastOp'.op = "restore" => lastOp'.reply = ERR_EXPIRED)]_vars

\* C10  Reply mapping of spill.restore with one non-empty key argument: OK
\* exactly when the host materialized the key; null when the store has no
\* entry; 'ERR Key has expired' when the entry is expired; 'ERR Corrupted
\* data in RocksDB' when the value is shorter than 8 bytes; 'ERR RocksDB not
\* initialized' when the store is not open.
C10_RestoreReplyMapping ==
    (lastOp.op = "restore" /\ lastOp.argc = 2 /\ lastOp.key # EmptyKey)
    => /\ (~db => lastOp.reply = ERR_DB_NOT_INIT)
       /\ (db /\ lastOp.got = "missing" => lastOp.reply = ReplyNull)
       /\ (lastOp.got = "expired" => lastOp.reply = ERR_EXPIRED)
       /\ (lastOp.got = "short" => lastOp.reply = ERR_CORRUPTED_DATA)
       /\ (lastOp.reply = ReplyOK
             <=> (lastOp.call.issued /\ lastOp.call.reply = "ok"))

\* C10 happens: spill.restore with one key argument found the entry expired
\* and replied 'ERR Key has expired'
C10_Witness ==
    /\ lastOp.op = "restore"
    /\ lastOp.argc = 2
    /\ lastOp.got = "expired"
    /\ lastOp.reply = ERR_EXPIRED

\* The message rocksdb_get writes to *err when the point-get fails, and the
\* error string of the host's RESTORE reply
StoreErrorText == "IO error: store read failed"
HostErrorText == "ERR DUMP payload version or checksum are wrong"

\* C11  Store read error on restore: when the point-get of spill.restore
\* returns an error, the command's error reply carries the store's own
\* message; when the point-get of the pre-miss callback returns an error,
\* the callback returns with no further store operation, no host call and
\* no counter change.
C11_StoreReadError ==
    [][(lastOp = NoOp /\ lastOp'.got = "err")
       => /\ (lastOp'.op = "restore" => lastOp'.reply = StoreErrorText)
          /\ (lastOp'.op = "premiss"
                => /\ store' = store
                   /\ stats' = stats
                   /\ ~lastOp'.call.issued
                   /\ lastOp'.dels = {})]_vars

\* C12  Host failure on restore: when the host answers the RESTORE call of
\* spill.restore with an error, the command's reply is the host's error
\* message, and the entry stays in the store.
C12_HostErrorSurfaced ==
    [][\A k \in Keys :
         (RestoreReads(k) /\ lastOp'.op = "restore"
              /\ lastOp'.call.issued /\ lastOp'.call.reply = "error")
         => /\ lastOp'.reply = HostErrorText
            /\ store'[k] = store[k]]_vars

\* C13  Corrupted entry: spill.restore on a key whose stored value is
\* shorter than 8 bytes replies 'ERR Corrupted data in RocksDB', calls
\* neither the host nor rocksdb_delete, and leaves the store and every
\* counter as they were, so that the command repeated finds the same state
\* and gives the same reply.
C13_CorruptedEntry ==
    [][\A k \in Keys :
         (RestoreReads(k) /\ lastOp'.op = "restore"
              /\ Len(store[k]) < HeaderLen)
         => /\ lastOp'.reply = ERR_CORRUPTED_DATA
            /\ ~lastOp'.call.issued
            /\ lastOp'.dels = {}
            /\ store' = store
            /\ stats' = stats]_vars

\* C13 happens: spill.restore has just read a 4-byte value and replied
\* 'ERR Corrupted data in RocksDB', the value still being in the store
C13_Witness ==
    /\ lastOp.op = "restore"
    /\ lastOp.got = "short"
    /\ lastOp.reply = ERR_CORRUPTED_DATA
    /\ store[lastOp.key] = ShortValue

\* C15  total_keys_cleaned grows by 1 for each entry that a pre-miss
\* callback or spill.restore finds expired and deletes, and by the number of
\* entries removed for each periodic sweep or spill.cleanup.
C15_CleanedCountsRestoreExpiry ==
    [][/\ \A k \in Keys :
            (RestoreReads(k) /\ lastOp'.got = "expired"
                 /\ k \notin lastOp'.delFail)
            => stats'.total_keys_cleaned
                   = FetchAndAdd(stats.total_keys_cleaned, 1)
       /\ (SweepRuns /\ lastOp'.got # "err")
            => stats'.total_keys_cleaned
                   = FetchAndAdd(stats.total_keys_cleaned, lastOp'.cleaned)]_vars

\* C14  Key already in memory: when spill.restore runs for a key that the
\* host holds in memory and the store has a live entry for, the restoration
\* is skipped: no RESTORE call replaces the in-memory value, and the command
\* replies null.
C14_SkippedWhenInMemory ==
    (lastOp.op = "restore" /\ lastOp.inMem /\ lastOp.got = "live")
    => /\ ~(lastOp.call.issued /\ lastOp.call.replace)
       /\ lastOp.reply = ReplyNull

\* The entries of store st that carry a header
Framed(st) == {k \in Keys : st[k] # NoVal /\ Len(st[k]) >= HeaderLen}

\* C16  num_keys_stored is eventually consistent: when a periodic sweep or
\* spill.cleanup has just visited every entry, its deletes all succeeding,
\* num_keys_stored equals the number of entries left in the store (each of
\* which the sweep found not expired), whatever evictions, restores and
\* sweeps came before.
C16_StoredMatchesLive ==
    (/\ lastOp.op \in {"sweep", "cleanup"}
     /\ db
     /\ lastOp.complete
     /\ lastOp.got # "err"
     /\ lastOp.delFail = {})
    => stats.num_keys_stored = U64(Cardinality(Framed(store)))

\* The entries of store st whose header expiry is positive and earlier than
\* the clock's reading, in milliseconds, at instant t
ExpiredBefore(st, t) ==
    {k \in Framed(st) :
        HeaderOf(st[k]) > 0 /\ HeaderOf(st[k]) < (t \div MsPerSec) * MsPerSec}

C18_SweeperDisabled ==
    [][/\ (phase' = "loaded" /\ config'.cleanup_interval = 0)
            => /\ cleanup_thread_running' = 0
               /\ lastOp'.op # "sweep"
       /\ (/\ SweepRuns /\ lastOp'.op = "cleanup"
           /\ phase = "loaded" /\ config.cleanup_interval = 0
           /\ lastOp'.got # "err")
            => /\ lastOp'.reply = ReplyArray
               /\ lastOp'.scanned = Cardinality({k \in Keys : store[k] # NoVal})
               /\ lastOp'.dels = ExpiredBefore(store, now)
               /\ \A k \in ExpiredBefore(store, now) \ lastOp'.delFail :
                      store'[k] = NoVal]_vars

\* C18 happens: the module is loaded with cleanup_interval = 0, no sweeper
\* runs, and spill.cleanup has just deleted an expired entry
C18_Witness ==
    /\ phase = "loaded"
    /\ config.cleanup_interval = 0
    /\ cleanup_thread_running = 0
    /\ lastOp.op = "cleanup"
    /\ lastOp.cleaned = 1
    /\ \E k \in lastOp.dels : store[k] = NoVal

\* The step ran a handler that did nothing: no store read, write or delete,
\* no host call, no counter change
HandlerIdle ==
    /\ store' = store
    /\ stats' = stats
    /\ lastOp'.got = "none"
    /\ ~lastOp'.putOk
    /\ lastOp'.dels = {}
    /\ lastOp'.scanned = 0
    /\ lastOp'.calls = {}
    /\ ~lastOp'.call.issued

\* C19  Store not open: before the module is initialized and after its
\* teardown both callbacks return without a store operation, a host call or
\* a counter change, and spill.restore (with its one key argument) and
\* spill.cleanup reply 'ERR RocksDB not initialized' without touching the
\* store; a callback entered under an event name that is not its own
\* returns without doing anything, too.
C19_StoreNotOpen ==
    [][/\ (/\ lastOp = NoOp
           /\ phase \in {"unloaded", "closed"}
           /\ lastOp'.op \in {"preeviction", "premiss", "restore", "cleanup"})
            => /\ HandlerIdle
               /\ (lastOp'.op = "restore" /\ lastOp'.argc = 2)
                    => lastOp'.reply = ERR_DB_NOT_INIT
               /\ lastOp'.op = "cleanup" => lastOp'.reply = ERR_DB_NOT_INIT
       /\ (/\ lastOp = NoOp
           /\ lastOp'.op \in {"preeviction", "premiss"}
           /\ lastOp'.event # lastOp'.op)
            => HandlerIdle]_vars

\* C19 happens: after teardown, over a store that still holds entries,
\* spill.restore has just replied 'ERR RocksDB not initialized'
C19_Witness ==
    /\ phase = "closed"
    /\ ~db
    /\ \E k \in Keys : store[k] # NoVal /\ lastOp.key = k
    /\ lastOp.op = "restore"
    /\ lastOp.reply = ERR_DB_NOT_INIT

\* C20  Failed load: whenever OnLoad returns an error, every resource it
\* acquired is released: the store handle is closed and null, the option
\* objects are destroyed, and the path string is freed.
C20_FailedLoadReleases ==
    phase = "failed"
    => /\ ~db
       /\ handles = NoHandles
       /\ config.path = NoPath

\* The positions of the option keys of argument vector a that have a value,
\* and those among them that spell one of the names
OptionKeys(a) == {i \in 1..Len(a) : i % 2 = 1 /\ i + 1 <= Len(a)}
KeysNamed(a, names) ==
    {i \in OptionKeys(a) : \E nm \in names : StrCaseEq(a[i], nm)}
PathKeys(a) == KeysNamed(a, {OptPath})
MemoryKeys(a) == KeysNamed(a, {OptMaxMemory, OptMaxMemoryAlt})
IntervalKeys(a) == KeysNamed(a, {OptCleanupInterval, OptCleanupIntervalAlt})

RECURSIVE KnownOnly(_)
\* Argument vector a without the pairs whose key the module does not know
KnownOnly(a) ==
    IF Len(a) < 2 THEN <<>>
    ELSE IF 1 \in PathKeys(a) \cup MemoryKeys(a) \cup IntervalKeys(a)
    THEN <<a[1], a[2]>> \o KnownOnly(Tail(Tail(a)))
    ELSE KnownOnly(Tail(Tail(a)))

\* The static initializer of config
InitialConfig ==
    [path |-> NoPath, max_memory |-> U64(DefaultMaxMemory),
     cleanup_interval |-> DefaultCleanupInterval]

\* C21  Load-argument validation: the load fails when no path option is
\* given, when a max-memory value is below 20971520, or when a
\* cleanup-interval value is negative; pairs under keys the module does not
\* know change nothing; a configuration without max-memory or without
\* cleanup-interval keeps the default 268435456 or 300.
C21_ArgumentValidation ==
    lastOp.op = "load"
    => LET a == lastOp.argv
       IN  /\ PathKeys(a) = {} => lastOp.reply = "err"
           /\ (\E i \in MemoryKeys(a) : Atoll(a[i + 1]) < MinMaxMemory)
                => lastOp.reply = "err"
           /\ (\E i \in IntervalKeys(a) : Atoll(a[i + 1]) < 0)
                => lastOp.reply = "err"
           /\ ParseModuleArgs(InitialConfig, a)
                = ParseModuleArgs(InitialConfig, KnownOnly(a))
           /\ MemoryKeys(a) = {}
                => config.max_memory = U64(DefaultMaxMemory)
           /\ IntervalKeys(a) = {}
                => config.cleanup_interval = DefaultCleanupInterval

\* The expiry_time_ms a capture computed: the clock at the capture plus the
\* PTTL reply when that is positive, else the PTTL reply itself (-1 when
\* the reply was no integer)
CapturedExpiry(c) ==
    IF c.pttl > 0 THEN (c.at \div MsPerSec) * MsPerSec + c.pttl ELSE c.pttl

C23_DeleteAfterRestore ==
    [][\A k \in Keys :
         (RestoreReads(k) /\ lastOp'.got = "live")
         => /\ lastOp'.call.issued
            /\ (k \in lastOp'.dels <=> lastOp'.call.reply = "ok")
            /\ lastOp'.call.reply # "ok"
                 => /\ store'[k] = store[k]
                    /\ stats'.total_keys_restored = stats.total_keys_restored
                    /\ stats'.total_bytes_read = stats.total_bytes_read
                    /\ stats'.num_keys_stored = stats.num_keys_stored]_vars

\* C23 happens: the host answered the RESTORE of a live entry with an error
\* and the entry is still in the store
C23_Witness ==
    /\ lastOp.op \in {"premiss", "restore"}
    /\ lastOp.got = "live"
    /\ lastOp.call.issued
    /\ lastOp.call.reply = "error"
    /\ lastOp.dels = {}
    /\ store[lastOp.key] # NoVal

\* C24  TTL floor: whenever an entry with expiry_ms > 0 is materialized, the
\* TTL argument of the RESTORE call is max(1, expiry_ms - now_ms()), the
\* clock being read again after the expiry check, and so never 0.
C24_TtlFloor ==
    [][\A k \in Keys :
         (/\ RestoreReads(k)
          /\ lastOp'.call.issued
          /\ HeaderOf(store[k]) > 0)
         => LET left == HeaderOf(store[k]) - (now' \div MsPerSec) * MsPerSec
            IN  /\ lastOp'.call.ttl = IF left > 1 THEN left ELSE 1
                /\ lastOp'.call.ttl >= 1]_vars

\* This step is the sweeper's loop body deleting key k: the entry its
\* iterator shows for k is expired
SweeperDeletes(k) ==
    /\ thr.pc = "visit"
    /\ thr'.pc = "loop"
    /\ thr'.cleaned = thr.cleaned + 1
    /\ k = StoreKeys(thr.snap)[thr.i + 1]

\* C25  Under every interleaving of the sweeper with pre-eviction writes
\* of the host thread, an entry the sweeper deletes is expired as it is in
\* the store at the moment of the delete (expiry_ms > 0 and earlier than
\* the sweep's now_ms): a key spilled again with a fresh expiry while a
\* sweep is in progress keeps its new entry.
C25_SweeperDeletesOnlyExpired ==
    [][\A k \in Keys :
         (SweeperDeletes(k) /\ store[k] # NoVal)
         => /\ Len(store[k]) >= HeaderLen
            /\ HeaderOf(store[k]) > 0
            /\ HeaderOf(store[k]) < (thr.t \div MsPerSec) * MsPerSec]_vars


\* This step is a store operation of the sweeper: the iterator is created,
\* tested, read (with the delete that may follow) or destroyed
SweeperStoreOp ==
    \/ thr.pc = "enter" /\ thr'.pc = "loop"
    \/ thr.pc \in {"loop", "visit", "finish"} /\ thr'.pc # thr.pc

\* C26  OnUnload clears the run flag and joins the sweeper before it
\* closes the store: under every interleaving of an unload with a running
\* periodic sweep, every store operation of the sweeper (iterate, read,
\* delete) happens while the store handle is open, none after the close.
C26_NoStoreOpAfterClose ==
    [][SweeperStoreOp => (db /\ phase # "closed")]_vars

\* The unload has cleared the flag while the sweeper is inside a sweep, at
\* an entry of its iterator
C26_Witness ==
    /\ phase = "unloading"
    /\ cleanup_thread_running = 0
    /\ thr.pc = "visit"
    /\ db

\* This step is the sweeper entering PerformCleanup and creating its
\* iterator
SweepStarts == thr.pc = "enter" /\ thr'.pc = "loop"

\* This step is the sweeper's loop test admitting the next entry
EntryAdmitted == thr.pc = "loop" /\ thr'.pc = "visit"

\* This step is the sweeper's test of the flag after its sleep
FlagTested == thr.pc = "woke" /\ thr'.pc # "woke"

\* C27  Once OnUnload has cleared the run flag the sweeper terminates and
\* the join completes: the flag test after the sleep leaves the thread, the
\* loop test of a sweep admits no further entry, and the unload reaches
\* the close.  (A sweeper that had passed the flag test before the flag was
\* cleared still enters PerformCleanup; that sweep visits no entry.)
C27_ShutdownTerminates ==
    /\ (phase = "unloading") ~> (phase = "closed")
    /\ [][cleanup_thread_running = 0 =>
              /\ FlagTested => thr'.pc = "exited"
              /\ ~EntryAdmitted
              /\ thr.pc = "finish" /\ thr'.pc # "finish"
                    => thr'.pc = "exited"]_vars

\* The flag was cleared during a sweep and the sweeper has left its loop
\* before the end of its iterator
C27_Witness ==
    /\ phase = "unloading"
    /\ cleanup_thread_running = 0
    /\ thr.pc = "finish"
    /\ thr.i < Len(StoreKeys(thr.snap))

\* C27 as stated: the sweeper terminates, the join completes, and no sweep
\* starts after the flag is cleared
C27_NoSweepAfterClear ==
    /\ (phase = "unloading") ~> (phase = "closed")
    /\ [][cleanup_thread_running = 0 => ~SweepStarts /\ ~EntryAdmitted]_vars

\* The sweep in progress has passed key k, whose entry its iterator showed
\* as expired: the sweeper has issued its delete of k
SweeperPassed(k) ==
    /\ thr.pc \in {"loop", "visit", "finish"}
    /\ k \in DOMAIN thr.snap
    /\ SweepExpired(thr.snap[k], NowMs(thr.t))
    /\ \E j \in 1..thr.i : StoreKeys(thr.snap)[j] = k

\* A restore of key k has run to its end and the host has not yet returned
\* from the handler
RestoreDone(k) ==
    /\ lastOp.op \in {"premiss", "restore"}
    /\ lastOp.key = k
    /\ lastOp.got \notin {"none", "pending"}

\* C28  When a restore of key k (pre-miss or spill.restore) races with the
\* sweeper deleting the entry of k, then once both have acted (no store
\* delete having failed) the entry of k is absent from the store, and the
\* restore ended in one of: restored, expired, not found, or the host
\* refusing the RESTORE; a restore whose point-get came after the
\* sweeper's delete only observes not-found (result -2, null reply).
C28_RaceConverges ==
    \A k \in Keys :
        (SweeperPassed(k) /\ RestoreDone(k) /\ faults = 0)
        => /\ store[k] = NoVal
           /\ lastOp.got \in {"live", "expired", "missing"}
           /\ lastOp.got = "missing"
                => /\ lastOp.result = -2
                   /\ lastOp.op = "restore" => lastOp.reply = ReplyNull
                   /\ lastOp.dels = {}
                   /\ ~lastOp.call.issued
           /\ lastOp.got = "live"
                => \/ lastOp.result = 0
                   \/ lastOp.result = -1 /\ lastOp.call.reply # "ok"
           /\ lastOp.got = "expired" => lastOp.result = -3

\* The sweeper deleted the entry of a key between a restore's point-get of
\* it and the restore's own delete, and the restore succeeded
C28_Witness ==
    \E k \in Keys :
        /\ SweeperPassed(k)
        /\ RestoreDone(k)
        /\ faults = 0
        /\ lastOp.got = "live"
        /\ lastOp.result = 0

\* The sweeper deleted the entry of a key and a restore of the key that
\* came after found nothing
C28_WitnessNotFound ==
    \E k \in Keys :
        SweeperPassed(k) /\ RestoreDone(k) /\ lastOp.got = "missing"

\* This step is a pre-eviction write that counted a new key
HostIncrements ==
    /\ lastOp = NoOp
    /\ lastOp'.op = "preeviction"
    /\ lastOp'.putOk
    /\ store[lastOp'.key] = NoVal
    /\ store'[lastOp'.key] # NoVal

\* This step is a restore that materialized its key
HostDecrements ==
    /\ lastOp.got = "pending"
    /\ lastOp'.got = "live"
    /\ lastOp'.result = 0

\* This step is the sweeper counting an entry it deleted
SweeperDecrements == thr.pc = "visit" /\ thr'.cleaned = thr.cleaned + 1

\* This step is the sweeper adding the count of its sweep to the total
SweeperAdds == thr.pc = "finish" /\ thr'.pc # "finish"

\* C29  No counter update of the host thread or of the sweeper thread is
\* lost: under every interleaving of pre-eviction writes, restores and
\* periodic sweeps, every increment and every decrement changes
\* num_keys_stored by one from the value it has at that moment, every
\* finished sweep adds its cleaned count to total_keys_cleaned as it is at
\* that moment, and no other step but the load, which seeds
\* num_keys_stored, changes either counter.
C29_NoLostUpdate ==
    [][/\ stats'.num_keys_stored =
            IF phase = "unloaded" /\ phase' = "loaded" THEN seeded'
            ELSE IF HostIncrements
            THEN U64Plus(stats.num_keys_stored, U64(1))
            ELSE IF HostDecrements \/ SweeperDecrements
            THEN U64Minus(stats.num_keys_stored, U64(1))
            ELSE stats.num_keys_stored
       /\ stats'.total_keys_cleaned =
            IF SweeperAdds
            THEN U64Plus(stats.total_keys_cleaned, U64(thr.cleaned))
            ELSE stats.total_keys_cleaned]_vars

\* During one sweep that has deleted and counted an entry, the host thread
\* has written a new key and counted it
C29_Witness ==
    /\ thr.pc \in {"loop", "visit", "finish"}
    /\ thr.cleaned >= 1
    /\ lastOp.op = "preeviction"
    /\ lastOp.putOk
    /\ thr.snap[lastOp.key] = NoVal
    /\ store[lastOp.key] # NoVal

\* During one sweep that has deleted and counted an entry, a restore of the
\* host thread has materialized another key and counted it
C29_WitnessRestore ==
    /\ thr.pc \in {"loop", "visit", "finish"}
    /\ thr.cleaned >= 1
    /\ lastOp.op = "premiss"
    /\ lastOp.got = "live"
    /\ lastOp.result = 0

\* C30  For each entry removed from the store num_keys_stored is
\* decremented at most once and total_keys_cleaned grows by at most one,
\* also when the periodic sweeper and a spill.cleanup command run at the
\* same time and both visit the same expired entry: a decrement of the
\* sweeper whose delete did not fail removes an entry that is in the
\* store.
C30_DecrementOncePerEntry ==
    [][\A k \in Keys :
          (SweeperDeletes(k) /\ faults' = faults)
          => /\ store[k] # NoVal
             /\ store'[k] = NoVal]_vars

\* C31  The unsigned counter num_keys_stored never wraps below zero: in
\* every reachable state, also after a load over a store that holds expired
\* entries and any sequence of sweeps, restores and overwrites, its value
\* read as a signed 64-bit number is not negative.
C31_NoWrapBelowZero == stats.num_keys_stored[4] < LimbBase \div 2

\* This step is a sweep, periodic or on demand, that ran over the open store
SweepRan ==
    /\ lastOp = NoOp
    /\ lastOp'.op \in {"sweep", "cleanup"}
    /\ db

\* C32  In a sweep (periodic or spill.cleanup) an expired entry whose store
\* delete fails is not counted: the cleaned count, and with it the decrease
\* of num_keys_stored and the growth of total_keys_cleaned, covers only the
\* entries that were deleted.
C32_FailedDeleteNotCounted ==
    [][SweepRan =>
         LET deleted == Cardinality(lastOp'.dels \ lastOp'.delFail)
         IN  /\ lastOp'.cleaned = deleted
             /\ stats'.num_keys_stored =
                    U64Minus(stats.num_keys_stored, U64(deleted))
             /\ lastOp'.got # "err" =>
                    stats'.total_keys_cleaned =
                        U64Plus(stats.total_keys_cleaned, U64(deleted))]_vars

\* This step is a pre-eviction event that reached rocksdb_put
PutCalled ==
    /\ lastOp = NoOp
    /\ lastOp'.op = "preeviction"
    /\ lastOp'.got # "none"

\* What a put does to the counters, newKey telling whether it counts as a
\* new key
PutCounted(newKey) ==
    LET k == lastOp'.key
    IN  /\ Len(store'[k]) = HeaderLen + Len(captured'[k].dump)
        /\ stats' = [stats EXCEPT
              !.total_keys_written = U64Plus(@, U64(1)),
              !.total_bytes_written = U64Plus(@, U64(Len(store'[k]))),
              !.num_keys_stored = IF newKey THEN U64Plus(@, U64(1)) ELSE @]

\* C33  On each successful store put of the pre-eviction callback
\* total_keys_written grows by exactly 1 and total_bytes_written by exactly
\* 8 + payload length, and num_keys_stored grows by 1 exactly when the
\* existence read before the put returned no value and no error; when the
\* put fails no counter changes.
C33_PutCounters ==
    [][PutCalled =>
         IF lastOp'.putOk
         THEN PutCounted(lastOp'.got = "missing")
         ELSE stats' = stats]_vars

\* A put of a key the store held no entry for succeeded and was counted
C33_Witness ==
    /\ lastOp.op = "preeviction"
    /\ lastOp.putOk
    /\ lastOp.got = "missing"
    /\ store[lastOp.key] # NoVal
    /\ stats.num_keys_stored # seeded

\* C33 as stated: num_keys_stored grows by 1 exactly when the store held no
\* entry for the key just before the put
C33_NewWhenAbsent ==
    [][PutCalled =>
         IF lastOp'.putOk
         THEN PutCounted(store[lastOp'.key] = NoVal)
         ELSE stats' = stats]_vars

\* This step is a pre-eviction event of the callback's own event name,
\* the store being open
EvictionRan ==
    /\ lastOp = NoOp
    /\ lastOp'.op = "preeviction"
    /\ lastOp'.event = "preeviction"
    /\ db

\* C34  Each pre-eviction event performs at most one store put (only the
\* entry of its own key can change), no store delete (no entry leaves the
\* store) and no change to a host key (the host is only called with DUMP
\* and PTTL, never RESTORE); when the DUMP call fails or returns a reply
\* that is not a string, the event performs no put and changes no counter.
C34_EvictionFrame ==
    [][EvictionRan =>
         /\ \A k \in Keys : k # lastOp'.key => store'[k] = store[k]
         /\ \A k \in Keys : store[k] # NoVal => store'[k] # NoVal
         /\ lastOp'.dels = {}
         /\ lastOp'.calls \subseteq {"DUMP", "PTTL"}
         /\ ~lastOp'.call.issued
         /\ "PTTL" \notin lastOp'.calls =>
                /\ store' = store
                /\ stats' = stats
                /\ ~lastOp'.putOk]_vars

\* A pre-eviction event whose DUMP call gave no string has run over a
\* store that holds an entry
C34_Witness ==
    /\ lastOp.op = "preeviction"
    /\ lastOp.event = "preeviction"
    /\ db
    /\ lastOp.calls = {"DUMP"}
    /\ \E k \in Keys : store[k] # NoVal

\* The expiry_ms the encoding rule gives for PTTL reply r at the module's
\* clock reading now_ms
EncodedExpiry(r, now_ms) ==
    IF r.type # "integer" THEN -1
    ELSE IF r.val > 0 THEN now_ms + r.val
    ELSE r.val

LoadSucceeds == phase = "unloaded" /\ phase' = "loaded"

\* The keys whose value in the store has a header and is permanent
\* (expiry_ms <= 0) or not expired at now_ms (expiry_ms >= now_ms)
ActiveAtLoad(now_ms) ==
    {k \in Keys : /\ store[k] # NoVal
                  /\ Len(store[k]) >= HeaderLen
                  /\ (HeaderOf(store[k]) <= 0 \/ HeaderOf(store[k]) >= now_ms)}

\* The keys whose entry has expiry_ms == 0 or expiry_ms > now_ms
ZeroOrLaterAtLoad(now_ms) ==
    {k \in Keys : /\ store[k] # NoVal
                  /\ Len(store[k]) >= HeaderLen
                  /\ (HeaderOf(store[k]) = 0 \/ HeaderOf(store[k]) > now_ms)}

C37_SameSweep ==
    [][\A i \in BOOLEAN, n \in 0..Cardinality(Keys), f \in SUBSET Keys,
          t2 \in ClockPoints :
          (db /\ CleanupCommand(i, n, f, t2))
          => LET w == SweepLoop(store, stats.num_keys_stored, now, n, f)
                 periodic == SweepTotals(w, t2)
             IN  /\ store' = w.store
                 /\ stats'.num_keys_stored = periodic.num_keys_stored
                 /\ stats'.total_keys_cleaned = periodic.total_keys_cleaned
                 /\ stats'.last_num_keys_cleaned =
                        periodic.last_num_keys_cleaned]_vars

\* The last instant of the sampled clock
LastInstant == MaxSec * MsPerSec

\* The store holds for k an entry with a positive expiry that the clock
\* passes, while the module is loaded with its sweeper running
AwaitsReclaim(k) ==
    /\ phase = "loaded"
    /\ cleanup_thread_running = 1
    /\ config.cleanup_interval > 0
    /\ store[k] # NoVal
    /\ Len(store[k]) >= HeaderLen
    /\ HeaderOf(store[k]) > 0
    /\ HeaderOf(store[k]) < LastInstant

\* C38  Eventual reclamation: with cleanup_interval > 0 and the module
\* staying loaded, every store entry with expiry_ms > 0 is eventually
\* deleted from the store after its expiry has passed, the clock advancing,
\* the sweeper thread being scheduled and deletes succeeding eventually.
C38_EventualReclamation ==
    \A k \in Keys : AwaitsReclaim(k) ~> (store[k] = NoVal)

\* The sweeper has deleted, in a sweep begun at the last instant, an entry
\* that was not yet expired when the module was loaded
C38_Witness ==
    \E k \in Keys :
        /\ phase = "loaded"
        /\ thr.pc \in {"loop", "visit", "finish"}
        /\ thr.t = LastInstant
        /\ k \in DOMAIN thr.snap
        /\ Len(thr.snap[k]) >= HeaderLen
        /\ HeaderOf(thr.snap[k]) > FirstInstant
        /\ store[k] = NoVal

====
